---- MODULE Spec2Model ----
(***************************************************************************)
(* Voice Room Lifecycle Manager of the VoiceMaster bot: the Room registry, *)
(* the voiceStateUpdate watcher (provisioner, access gate, empty-room      *)
(* reaper) and the room control surface (buttons, commands).               *)
(*                                                                         *)
(* External calls that the code guards with its own failure handling are   *)
(* inputs of the actions: channel create, member move, registry write,     *)
(* channel delete, permission-overwrite edit, registry update. Member     *)
(* disconnects and cache-backed fetches succeed; registry reads succeed    *)
(* except in the specifications that let the database connection go.       *)
(*                                                                         *)
(* Spec runs every handler without interleaving. The other specifications  *)
(* take one concern await by await: the reaper, the startup sweep, the     *)
(* capacity buttons, the connection, createRoom, handleVoiceSwitch, the    *)
(* Lock, Unlock and Claim buttons, the provisioner, the command blacklist, *)
(* the fallback cache and the grace timeouts.                              *)
(***************************************************************************)
EXTENDS Integers, FiniteSets, Sequences, TLC

Members == {"m1", "m2"}
Lobby == "L"
Rooms == {"r1"}
NoChan == "none"
NoMember == "nobody"

\* The largest capacity the Increase button and vclimit go to.
MaxLimit == 99

\* Pending settle timeouts per channel that the model keeps apart.
MaxSettle == 1
\* Grace callbacks of one channel that may be in flight at once.
MaxCallbacks == 2

Tri == {"allow", "deny", "unset"}

\* What a member's guild roles grant: nothing of interest, ManageChannels, or
\* Administrator (which carries every permission in every channel).
GuildLevels == {"none", "manage", "admin"}

VARIABLES
    voice,      \* member -> channel the member is connected to, or NoChan
    chan,       \* existing room channels: id -> permission overwrites, capacity
    used,       \* channel ids the platform has handed out
    rows,       \* Room registry: channelId -> Room document
    settle,     \* channelId -> pending 1 s settle timeouts of handleVoiceLeave
    grace,      \* deletionTimeouts: channel ids with a pending 15 s timeout
    older,      \* channelId -> settle timeouts armed before the pending grace timeout
    guildPerm,  \* member -> what the member's guild roles grant
    reply,      \* the acknowledgment the step just taken sent to its invoker, if any
    prov,       \* the last createPrivateRoom run that reached channels.create
    joinQ,      \* join branches started and not yet past their registry reads
    cb,         \* channelId -> grace callbacks in flight, by position
    rejoined,   \* channels rejoined while their deletion was pending and no callback ran
    reapFault,  \* a grace callback met a missing permission or a rejected delete
    sweep,      \* cleanupVoiceMasterRooms: its position, the rows still to visit, the row in hand
    dbConnected,\* mongoose.connection.readyState === 1
    roomDocs,   \* the rooms collection as stored: one record per inserted document
    creating,   \* createRoom calls in flight: call -> position
    autoIndex,  \* whether mongoose built the schema's indexes on connect
    switching,  \* member -> the handleVoiceSwitch run in flight for the member
    ops,        \* button handlers in flight or ended: <<kind, member>> -> position
    building,   \* member -> the createPrivateRoom run past channels.create
    commandBlacklist, \* client.commandBlacklist
    ran,        \* the last command dispatch and what came of it
    cache,      \* MemoryCache.cache: key -> expiry time
    now,        \* Date.now()
    timers      \* channelId -> grace timeouts scheduled and neither expired nor cleared

\* The state of the startup sweep, the connection and the stored collection.
\* Handlers taken await by await, the command blacklist, the fallback cache
\* and the grace timeouts as the timer queue holds them.
more == <<switching, ops, building, commandBlacklist, ran, cache, now, timers>>

side == <<sweep, dbConnected, roomDocs, creating, autoIndex, more>>

vars == <<voice, chan, used, rows, settle, grace, older, guildPerm, reply, prov,
          joinQ, cb, rejoined, reapFault, side>>

----------------------------------------------------------------------------
\* Room registry (models/Room).

NewRoom(owner) ==
    [ownerId |-> owner, locked |-> FALSE, hidden |-> FALSE, limit |-> {}]

hasRoom(rws, c) == c \in DOMAIN rws

createRoom(rws, c, owner) ==
    [x \in DOMAIN rws \cup {c} |-> IF x = c THEN NewRoom(owner) ELSE rws[x]]

updateRoom(rws, c, data) ==
    IF c \in DOMAIN rws
    THEN [rws EXCEPT ![c] =
            [f \in DOMAIN rws[c] |-> IF f \in DOMAIN data THEN data[f] ELSE rws[c][f]]]
    ELSE rws

deleteRoom(rws, c) == [x \in DOMAIN rws \ {c} |-> rws[x]]

----------------------------------------------------------------------------
\* Channels of the guild.

NewChannel(owner) ==
    [evConnect |-> "deny",
     evView    |-> "unset",
     memConnect |-> [m \in Members |-> IF m = owner THEN "allow" ELSE "unset"],
     userLimit |-> 0]

MembersIn(v, c) == {m \in Members : v[m] = c}

\* permissionsFor(member).has('Connect'): an administrator has every
\* permission; otherwise the member overwrite wins over the everyone
\* overwrite.
hasConnectPermission(ch, m) ==
    IF guildPerm[m] = "admin" THEN TRUE
    ELSE IF ch.memConnect[m] = "allow" THEN TRUE
    ELSE IF ch.memConnect[m] = "deny" THEN FALSE
    ELSE ch.evConnect # "deny"

----------------------------------------------------------------------------
\* The state the handlers work on, as one record.

St == [voice |-> voice, chan |-> chan, used |-> used, rows |-> rows,
       settle |-> settle, grace |-> grace, older |-> older]

Commit(s) ==
    /\ voice' = s.voice
    /\ chan' = s.chan
    /\ used' = s.used
    /\ rows' = s.rows
    /\ settle' = s.settle
    /\ grace' = s.grace
    /\ older' = s.older

tail == <<guildPerm, prov, joinQ, cb, rejoined, reapFault, side>>

\* A step of the voice-state watcher: nobody is sent an acknowledgment.
Watcher == reply' = "none" /\ UNCHANGED tail

SettleBounded(s) == \A c \in DOMAIN s.settle : s.settle[c] <= MaxSettle

\* handleVoiceLeave up to its setTimeout: a leave of a channel with a Room
\* row arms a settle timeout.
handleVoiceLeave(s, c) ==
    IF c \in DOMAIN s.settle /\ hasRoom(s.rows, c)
    THEN [s EXCEPT !.settle[c] = @ + 1]
    ELSE s

\* clearTimeout and deletionTimeouts.delete
cancelRoomDeletion(s, c) == [s EXCEPT !.grace = @ \ {c}, !.older[c] = 0]

\* member.voice.disconnect(): the member leaves voice, and the resulting
\* voiceStateUpdate runs the leave branch for the channel left.
Disconnect(s, m) ==
    IF s.voice[m] = NoChan THEN s
    ELSE handleVoiceLeave([s EXCEPT !.voice[m] = NoChan], s.voice[m])

\* channel.delete(): the channel goes, and whoever is in it loses voice.
DeleteChannel(s, c) ==
    LET inside == MembersIn(s.voice, c)
        s1 == [s EXCEPT !.chan = [x \in DOMAIN s.chan \ {c} |-> s.chan[x]],
                        !.voice = [m \in Members |->
                                     IF m \in inside THEN NoChan ELSE s.voice[m]]]
    IN  IF inside = {} THEN s1 ELSE handleVoiceLeave(s1, c)

----------------------------------------------------------------------------
\* Room Provisioner (createPrivateRoom). f gives what the preconditions find
\* and the outcome of the calls that can reject: channels.create,
\* voice.setChannel, createRoom and the compensating newChannel.delete.

\* The preconditions: all met; the VoiceCreator configuration no longer
\* found; or the database not connected, the category not valid or the bot
\* short of a permission in it.
Preconditions == {"met", "noConfig", "refused"}

\* A call the run does not get to has no outcome to choose (it is left TRUE):
\* none is made when the preconditions stop the run, none after a rejected
\* create, no registry write after a rejected move, and no compensating
\* delete when move and registry write both succeed.
Outcomes ==
    {f \in [pre : Preconditions, create : BOOLEAN, move : BOOLEAN, db : BOOLEAN,
             del : BOOLEAN] :
        /\ (f.pre # "met" \/ ~f.create) => (f.move /\ f.db /\ f.del)
        /\ ~f.move => f.db
        /\ (f.move /\ f.db) => f.del}

\* The model hands out the channel ids of Rooms once each; a run that gets
\* as far as channels.create needs one.
IdAvailable(s, f) == f.pre = "met" => Rooms \ s.used # {}

FreshId(s) == CHOOSE c \in Rooms \ s.used : TRUE

\* The compensating newChannel.delete(...).catch(...): a rejected delete is
\* logged and the channel stays.
CompensateDelete(s, c, ok) == IF ok THEN DeleteChannel(s, c) ELSE s

createPrivateRoom(s, m, f) ==
    LET c  == FreshId(s)
        s1 == [s EXCEPT !.chan = [x \in DOMAIN s.chan \cup {c} |->
                                    IF x = c THEN NewChannel(m) ELSE s.chan[x]],
                        !.used = @ \cup {c}]
        s2 == [s1 EXCEPT !.voice[m] = c]
    IN  IF f.pre = "noConfig"
        THEN [st |-> s, outcome |-> "noConfig", chan |-> NoChan]
        ELSE IF f.pre = "refused"
        THEN [st |-> Disconnect(s, m), outcome |-> "refused", chan |-> NoChan]
        ELSE IF ~f.create
        THEN [st |-> Disconnect(s, m), outcome |-> "createFailed", chan |-> NoChan]
        ELSE IF ~f.move
        THEN [st |-> Disconnect(CompensateDelete(s1, c, f.del), m),
              outcome |-> "moveFailed", chan |-> c]
        ELSE IF ~f.db
        THEN [st |-> Disconnect(CompensateDelete(s2, c, f.del), m),
              outcome |-> "dbFailed", chan |-> c]
        ELSE [st |-> [s2 EXCEPT !.rows = createRoom(s2.rows, c, m)],
              outcome |-> "created", chan |-> c]

\* prov keeps the last run that got as far as channels.create.
Recorded(m, r) ==
    IF r.outcome \in {"noConfig", "refused"} THEN prov
    ELSE [member |-> m, chan |-> r.chan, outcome |-> r.outcome]

----------------------------------------------------------------------------
\* Access Gate (handleVoiceJoin for a channel that is not the lobby).

handleVoiceJoin(s, m, c) ==
    IF ~hasRoom(s.rows, c) THEN s
    ELSE LET s1 == cancelRoomDeletion(s, c)
             room == s1.rows[c]
         IN  IF ~room.locked \/ c \notin DOMAIN s1.chan THEN s1
             ELSE IF m = room.ownerId THEN s1
             ELSE IF ~hasConnectPermission(s1.chan[c], m) THEN Disconnect(s1, m)
             ELSE s1

----------------------------------------------------------------------------
\* Voice transitions delivered to VoiceStateUpdateEvent.execute.

\* none -> lobby
JoinLobby(m) ==
    /\ voice[m] = NoChan
    /\ \E f \in Outcomes :
         LET r == createPrivateRoom([St EXCEPT !.voice[m] = Lobby], m, f)
         IN  /\ IdAvailable(St, f)
             /\ SettleBounded(r.st)
             /\ Commit(r.st)
             /\ prov' = Recorded(m, r)
    /\ reply' = "none"
    /\ UNCHANGED <<guildPerm, side, joinQ, cb, rejoined, reapFault>>

\* none -> room
JoinRoom(m, c) ==
    /\ voice[m] = NoChan
    /\ c \in DOMAIN chan
    /\ LET s == handleVoiceJoin([St EXCEPT !.voice[m] = c], m, c)
       IN  SettleBounded(s) /\ Commit(s)
    /\ Watcher

\* X -> none
Leave(m) ==
    /\ voice[m] # NoChan
    /\ LET s == handleVoiceLeave([St EXCEPT !.voice[m] = NoChan], voice[m])
       IN  SettleBounded(s) /\ Commit(s)
    /\ Watcher

\* X -> Y (handleVoiceSwitch): the leave branch for X, then the join branch
\* for Y.
SwitchToRoom(m, c) ==
    /\ voice[m] \notin {NoChan, c}
    /\ c \in DOMAIN chan
    /\ LET s1 == handleVoiceLeave([St EXCEPT !.voice[m] = c], voice[m])
           s2 == handleVoiceJoin(s1, m, c)
       IN  SettleBounded(s2) /\ Commit(s2)
    /\ Watcher

SwitchToLobby(m) ==
    /\ voice[m] \notin {NoChan, Lobby}
    /\ \E f \in Outcomes :
         LET s1 == handleVoiceLeave([St EXCEPT !.voice[m] = Lobby], voice[m])
             r  == createPrivateRoom(s1, m, f)
         IN  /\ IdAvailable(St, f)
             /\ SettleBounded(r.st)
             /\ Commit(r.st)
             /\ prov' = Recorded(m, r)
    /\ reply' = "none"
    /\ UNCHANGED <<guildPerm, side, joinQ, cb, rejoined, reapFault>>

----------------------------------------------------------------------------
\* Empty-Room Reaper: the two timer callbacks of handleVoiceLeave.

isEmpty(s, c) == MembersIn(s.voice, c) = {}

\* setTimeout(..., 15000) and deletionTimeouts.set: every settle timeout
\* still pending was armed earlier and so expires earlier than this one.
scheduleDeletion(s, c) ==
    LET s1 == cancelRoomDeletion(s, c)
    IN  [s1 EXCEPT !.grace = @ \cup {c}, !.older[c] = s1.settle[c]]

\* The 1 s settle callback.
settleCallback(s, c) ==
    IF c \notin DOMAIN s.chan THEN [s EXCEPT !.rows = deleteRoom(s.rows, c)]
    ELSE IF ~hasRoom(s.rows, c) THEN s
    ELSE IF isEmpty(s, c) THEN scheduleDeletion(s, c)
    ELSE s

DeleteResults == {"ok", "rateLimit", "missingPermissions"}

CbPcs == {"fetch", "check", "perm", "delete", "dbdel"}

\* The 15 s grace callback, one operator per stretch between two awaits.
\* Each yields the new state and the position the callback goes to.
To(s, pc) == [st |-> s, pc |-> pc]

\* finalGuild.channels.fetch
cbFetch(s, c) ==
    IF c \notin DOMAIN s.chan
    THEN To([s EXCEPT !.rows = deleteRoom(s.rows, c)], "done")
    ELSE To(s, "check")

\* getRoom without the final members.size check.
cbCheckRowOnly(s, c) ==
    IF ~hasRoom(s.rows, c) THEN To(s, "done") ELSE To(s, "perm")

\* getRoom and the final members.size check
cbCheck(s, c) ==
    IF ~hasRoom(s.rows, c) THEN To(s, "done")
    ELSE IF isEmpty(s, c) THEN To(s, "perm")
    ELSE To(s, "done")

\* members.fetch(bot) and the ManageChannels check
cbPerm(s, c, canManage) ==
    IF ~canManage
    THEN To([s EXCEPT !.rows = deleteRoom(s.rows, c)], "done")
    ELSE To(s, "delete")

\* finalVoiceChannel.delete with a catch that returns for no rejection.
cbDeleteThenRow(s, c, del) ==
    IF c \notin DOMAIN s.chan THEN To(s, "dbdel")
    ELSE IF del = "ok" THEN To(DeleteChannel(s, c), "dbdel")
    ELSE To(s, "dbdel")

\* finalVoiceChannel.delete and its catch: a rate limit returns, any other
\* rejection (the channel already gone included) goes on to deleteRoom.
cbDelete(s, c, del) ==
    IF c \notin DOMAIN s.chan THEN To(s, "dbdel")
    ELSE IF del = "ok" THEN To(DeleteChannel(s, c), "dbdel")
    ELSE IF del = "rateLimit" THEN To(s, "done")
    ELSE To(s, "dbdel")

\* deleteRoom
cbDbDelete(s, c) == To([s EXCEPT !.rows = deleteRoom(s.rows, c)], "done")

\* The whole grace callback, run without interruption.
graceCallback(s, c, canManage, del) ==
    LET r1 == cbFetch([s EXCEPT !.grace = @ \ {c}], c)
        r2 == IF r1.pc = "check" THEN cbCheck(r1.st, c) ELSE r1
        r3 == IF r2.pc = "perm" THEN cbPerm(r2.st, c, canManage) ELSE r2
        r4 == IF r3.pc = "delete" THEN cbDelete(r3.st, c, del) ELSE r3
        r5 == IF r4.pc = "dbdel" THEN cbDbDelete(r4.st, c) ELSE r4
    IN  r5.st

SettleFire(c) ==
    /\ settle[c] > 0
    /\ Commit(settleCallback([St EXCEPT !.settle[c] = @ - 1,
                                        !.older[c] = IF @ > 0 THEN @ - 1 ELSE 0], c))
    /\ Watcher

\* A grace timeout expires after every settle timeout armed before it.
GraceFire(c) ==
    /\ c \in grace
    /\ older[c] = 0
    /\ \E canManage \in BOOLEAN, del \in DeleteResults :
         /\ ~canManage => del = "ok"
         /\ Commit(graceCallback(St, c, canManage, del))
    /\ Watcher

----------------------------------------------------------------------------
\* Startup reconciliation (ReadyEvent.cleanupVoiceMasterRooms), one operator
\* per stretch between two awaits. Each yields the new state and the new
\* sweep record.

Swept(s, sw) == [st |-> s, sw |-> sw]

\* continue: on to the next row of the snapshot.
nextRoom(sw) == [sw EXCEPT !.pc = "fetch", !.cur = NoChan, !.found = FALSE]

\* Room.deleteMany({}) where the sweep has deleteRoom(room.channelId).
dropEveryEntry(s, sw) ==
    Swept([s EXCEPT !.rows = << >>], nextRoom([sw EXCEPT !.orphanedCount = @ + 1]))

\* deleteRoom of an entry counted as orphaned.
dropOrphan(s, sw) ==
    Swept([s EXCEPT !.rows = deleteRoom(s.rows, sw.cur)],
          nextRoom([sw EXCEPT !.orphanedCount = @ + 1]))

\* getAllRooms and the early return on an empty registry.
sweepStart(s, sw) ==
    IF DOMAIN s.rows = {} THEN Swept(s, [sw EXCEPT !.pc = "done"])
    ELSE Swept(s, [sw EXCEPT !.pc = "fetch", !.todo = DOMAIN s.rows])

\* The loop head: the next room of the snapshot and guild.channels.fetch for
\* it, or the end of the loop.
sweepFetch(s, sw, c) ==
    IF sw.todo = {} THEN Swept(s, [sw EXCEPT !.pc = "done"])
    ELSE Swept(s, [sw EXCEPT !.pc = "check", !.todo = @ \ {c}, !.cur = c,
                             !.found = (c \in DOMAIN s.chan)])

\* After the fetch: an entry whose channel did not resolve is deleted; an
\* empty channel goes on to the permission check; a channel with members is
\* kept.
sweepCheck(s, sw) ==
    IF ~sw.found THEN dropOrphan(s, sw)
    ELSE IF isEmpty(s, sw.cur) THEN Swept(s, [sw EXCEPT !.pc = "perm"])
    ELSE Swept(s, nextRoom(sw))

\* After members.fetch(bot): without ManageChannels the entry is deleted and
\* the channel left; otherwise voiceChannel.delete, whose rejection leads to
\* the catch block's second fetch.
sweepPerm(s, sw, canManage, del) ==
    IF ~canManage THEN dropOrphan(s, sw)
    ELSE IF sw.cur \in DOMAIN s.chan /\ del = "ok"
    THEN Swept(DeleteChannel(s, sw.cur), [sw EXCEPT !.pc = "dbdel"])
    ELSE Swept(s, [sw EXCEPT !.pc = "recheck"])

\* deleteRoom after the channel was deleted.
sweepDbDelete(s, sw) ==
    Swept([s EXCEPT !.rows = deleteRoom(s.rows, sw.cur)],
          nextRoom([sw EXCEPT !.deletedCount = @ + 1]))

\* The catch block after its fetch: the entry goes if the channel is gone,
\* and stays with the channel otherwise.
sweepRecheck(s, sw) ==
    IF sw.cur \notin DOMAIN s.chan THEN dropOrphan(s, sw)
    ELSE Swept(s, nextRoom(sw))

----------------------------------------------------------------------------
\* Room Control Surface. Each operation yields the new state and the kind of
\* acknowledgment the invoker gets; f gives the outcome of the calls that can
\* reject (the channel edit, the registry update).

\* After a rejected edit the registry update is not made.
CallOutcomes == {f \in [edit : BOOLEAN, db : BOOLEAN] : ~f.edit => f.db}

\* The operations that make only one of the two calls.
EditOutcomes == {f \in CallOutcomes : f.db}
DbOutcomes == {f \in CallOutcomes : f.edit}

Ack(s, kind) == [st |-> s, kind |-> kind]

editEveryone(s, c, field, val) == [s EXCEPT !.chan[c][field] = val]

\* An owner-gated button that turns down a request the Room row already
\* satisfies.
ownerButtonOnce(s, m, field, val, data, okKind, f) ==
    LET c == s.voice[m]
    IN  IF s.rows[c].ownerId # m THEN Ack(s, "notOwner")
        ELSE IF \A k \in DOMAIN data : s.rows[c][k] = data[k] THEN Ack(s, "error")
        ELSE IF ~f.edit THEN Ack(s, "error")
        ELSE IF ~f.db THEN Ack(editEveryone(s, c, field, val), "error")
        ELSE Ack([editEveryone(s, c, field, val) EXCEPT
                    !.rows = updateRoom(s.rows, c, data)], okKind)

\* The owner-gated buttons (Lock, Unlock, Hide, Unhide): getRoom, the owner
\* check, permissionOverwrites.edit, updateRoom, reply. A rejected call
\* reaches handleButtonInteraction, which replies with the error text.
ownerButton(s, m, field, val, data, okKind, f) ==
    LET c == s.voice[m]
    IN  IF s.rows[c].ownerId # m THEN Ack(s, "notOwner")
        ELSE IF ~f.edit THEN Ack(s, "error")
        ELSE IF ~f.db THEN Ack(editEveryone(s, c, field, val), "error")
        ELSE Ack([editEveryone(s, c, field, val) EXCEPT
                    !.rows = updateRoom(s.rows, c, data)], okKind)

lockButton(s, m, f) ==
    ownerButton(s, m, "evConnect", "deny", [locked |-> TRUE], "locked", f)

unlockButton(s, m, f) ==
    ownerButton(s, m, "evConnect", "allow", [locked |-> FALSE], "unlocked", f)

hideButton(s, m, f) ==
    ownerButton(s, m, "evView", "deny", [hidden |-> TRUE], "hidden", f)

unhideButton(s, m, f) ==
    ownerButton(s, m, "evView", "allow", [hidden |-> FALSE], "unhidden", f)

\* vclock / vcunlock: getRoom, the owner check, edit, updateRoom, all inside
\* one try whose catch replies with the failure text.
ownerCommand(s, m, field, val, data, okKind, f) ==
    LET c == s.voice[m]
    IN  IF ~hasRoom(s.rows, c) THEN Ack(s, "notPrivateRoom")
        ELSE IF s.rows[c].ownerId # m THEN Ack(s, "notOwner")
        ELSE IF ~f.edit THEN Ack(s, "error")
        ELSE IF ~f.db THEN Ack(editEveryone(s, c, field, val), "error")
        ELSE Ack([editEveryone(s, c, field, val) EXCEPT
                    !.rows = updateRoom(s.rows, c, data)], okKind)

vcLock(s, m, f) ==
    ownerCommand(s, m, "evConnect", "deny", [locked |-> TRUE], "locked", f)

vcUnlock(s, m, f) ==
    ownerCommand(s, m, "evConnect", "allow", [locked |-> FALSE], "unlocked", f)

\* vchide / vcunhide: the edit and the reply, nothing else.
vcHide(s, m, f) ==
    IF ~f.edit THEN Ack(s, "error")
    ELSE Ack(editEveryone(s, s.voice[m], "evView", "deny"), "hidden")

vcUnhide(s, m, f) ==
    IF ~f.edit THEN Ack(s, "error")
    ELSE Ack(editEveryone(s, s.voice[m], "evView", "allow"), "unhidden")

\* voice-increase: owner check, the ceiling, setUserLimit, updateRoom, reply.
increaseButton(s, m, f) ==
    LET c == s.voice[m]
        currentLimit == s.chan[c].userLimit
        newLimit == currentLimit + 1
    IN  IF s.rows[c].ownerId # m THEN Ack(s, "notOwner")
        ELSE IF currentLimit >= MaxLimit THEN Ack(s, "maxReached")
        ELSE IF ~f.edit THEN Ack(s, "error")
        ELSE IF ~f.db THEN Ack([s EXCEPT !.chan[c].userLimit = newLimit], "error")
        ELSE Ack([s EXCEPT !.chan[c].userLimit = newLimit,
                           !.rows = updateRoom(s.rows, c, [limit |-> {newLimit}])],
                 "increased")

\* The update of voice-decrease: { ...(newLimit !== 0 && { limit: newLimit }) }
decreasePatch(newLimit) == IF newLimit # 0 THEN [limit |-> {newLimit}] ELSE << >>

\* voice-decrease: owner check, the floor, setUserLimit, updateRoom, reply.
decreaseButton(s, m, f) ==
    LET c == s.voice[m]
        currentLimit == s.chan[c].userLimit
        newLimit == IF currentLimit - 1 > 0 THEN currentLimit - 1 ELSE 0
    IN  IF s.rows[c].ownerId # m THEN Ack(s, "notOwner")
        ELSE IF currentLimit <= 0 THEN Ack(s, "minReached")
        ELSE IF ~f.edit THEN Ack(s, "error")
        ELSE IF ~f.db THEN Ack([s EXCEPT !.chan[c].userLimit = newLimit], "error")
        ELSE Ack([s EXCEPT !.chan[c].userLimit = newLimit,
                           !.rows = updateRoom(s.rows, c, decreasePatch(newLimit))],
                 "decreased")

\* vclimit: setUserLimit and the reply, nothing else.
vcLimit(s, m, limit, f) ==
    IF ~f.edit THEN Ack(s, "error")
    ELSE Ack([s EXCEPT !.chan[s.voice[m]].userLimit = limit], "limitSet")

\* vcreject: member overwrite, disconnect the target if it is in the channel.
vcReject(s, m, t, f) ==
    LET c  == s.voice[m]
        s1 == [s EXCEPT !.chan[c].memConnect[t] = "deny"]
    IN  IF ~f.edit THEN Ack(s, "error")
        ELSE Ack(IF s1.voice[t] = c THEN Disconnect(s1, t) ELSE s1, "rejected")

\* vckick: disconnects the target from whatever voice channel it is in.
vcKick(s, t) ==
    IF s.voice[t] = NoChan THEN Ack(s, "notInVoice")
    ELSE Ack(Disconnect(s, t), "kicked")

\* voice-disconnect-menu
voiceDisconnectMenu(s, m, t) ==
    LET c == s.voice[m]
    IN  IF ~hasRoom(s.rows, c) THEN Ack(s, "notPrivateRoom")
        ELSE IF s.rows[c].ownerId # m THEN Ack(s, "notOwner")
        ELSE IF s.voice[t] # c THEN Ack(s, "notInChannel")
        ELSE Ack(Disconnect(s, t), "disconnected")

\* voice-claim without the look for the owner among the channel's members.
claimButtonAlways(s, m, f) ==
    LET c == s.voice[m]
    IN  IF ~f.db THEN Ack(s, "error")
        ELSE Ack([s EXCEPT !.rows = updateRoom(s.rows, c, [ownerId |-> m])], "claimed")

\* voice-claim
claimButton(s, m, f) ==
    LET c == s.voice[m]
    IN  IF s.rows[c].ownerId \in MembersIn(s.voice, c) THEN Ack(s, "ownerPresent")
        ELSE IF ~f.db THEN Ack(s, "error")
        ELSE Ack([s EXCEPT !.rows = updateRoom(s.rows, c, [ownerId |-> m])], "claimed")

\* The invoker of a button sits in a room (a channel with a Room row);
\* without one the handler returns without a reply.
InRoom(m) == voice[m] \in DOMAIN chan /\ hasRoom(rows, voice[m])

\* The dispatchers let a command through only for a member holding the
\* permissions the command declares: ManageChannels for the commands on the
\* caller's channel, MoveMembers for vckick.
hasGuildPermission(m, perm) ==
    \/ guildPerm[m] = "admin"
    \/ perm = "ManageChannels" /\ guildPerm[m] = "manage"

MayRunCommand(m) == voice[m] \in DOMAIN chan /\ hasGuildPermission(m, "ManageChannels")

Done(m, r) ==
    /\ SettleBounded(r.st)
    /\ Commit(r.st)
    /\ reply' = r.kind
    /\ UNCHANGED <<guildPerm, side, prov, joinQ, cb, rejoined, reapFault>>

LockButton(m) == InRoom(m) /\ \E f \in CallOutcomes : Done(m, lockButton(St, m, f))
UnlockButton(m) == InRoom(m) /\ \E f \in CallOutcomes : Done(m, unlockButton(St, m, f))
HideButton(m) == InRoom(m) /\ \E f \in CallOutcomes : Done(m, hideButton(St, m, f))
UnhideButton(m) == InRoom(m) /\ \E f \in CallOutcomes : Done(m, unhideButton(St, m, f))
ClaimButton(m) == InRoom(m) /\ \E f \in DbOutcomes : Done(m, claimButton(St, m, f))
VoiceDisconnectMenu(m, t) ==
    voice[m] \in DOMAIN chan /\ Done(m, voiceDisconnectMenu(St, m, t))

VcLockCommand(m) == MayRunCommand(m) /\ \E f \in CallOutcomes : Done(m, vcLock(St, m, f))
VcUnlockCommand(m) == MayRunCommand(m) /\ \E f \in CallOutcomes : Done(m, vcUnlock(St, m, f))
VcHideCommand(m) == MayRunCommand(m) /\ \E f \in EditOutcomes : Done(m, vcHide(St, m, f))
VcUnhideCommand(m) == MayRunCommand(m) /\ \E f \in EditOutcomes : Done(m, vcUnhide(St, m, f))
VcRejectCommand(m, t) ==
    MayRunCommand(m) /\ \E f \in EditOutcomes : Done(m, vcReject(St, m, t, f))
IncreaseButton(m) == InRoom(m) /\ \E f \in CallOutcomes : Done(m, increaseButton(St, m, f))
DecreaseButton(m) == InRoom(m) /\ \E f \in CallOutcomes : Done(m, decreaseButton(St, m, f))

\* The limits vclimit is given: the slash option takes 0..MaxLimit.
LimitInputs == {0, 1, MaxLimit - 1, MaxLimit}

VcLimitCommand(m, limit) ==
    MayRunCommand(m) /\ \E f \in EditOutcomes : Done(m, vcLimit(St, m, limit, f))

VcKickCommand(m, t) == hasGuildPermission(m, "MoveMembers") /\ Done(m, vcKick(St, t))

----------------------------------------------------------------------------

\* No sweep running, the database connected, no createRoom call in flight.
NoSweep ==
    [pc |-> "idle", todo |-> {}, cur |-> NoChan, found |-> FALSE,
     deletedCount |-> 0, orphanedCount |-> 0]

NoRun == [cmd |-> "none", outcome |-> "none"]

\* No handler in flight, nothing blacklisted, the cache empty, the timer queue
\* holding no grace timeout.
NoMore ==
    /\ switching = << >>
    /\ ops = << >>
    /\ building = << >>
    /\ commandBlacklist = {}
    /\ ran = NoRun
    /\ cache = << >>
    /\ now = 0
    /\ timers = [c \in Rooms |-> 0]

NoSide ==
    /\ sweep = NoSweep
    /\ dbConnected = TRUE
    /\ roomDocs = {}
    /\ creating = << >>
    /\ autoIndex = TRUE
    /\ NoMore

\* One member holds nothing beyond the everyone role; the others may.
Regular == CHOOSE m \in Members : TRUE

NoProv == [member |-> NoMember, chan |-> NoChan, outcome |-> "none"]

Init ==
    /\ voice = [m \in Members |-> NoChan]
    /\ chan = << >>
    /\ used = {}
    /\ rows = << >>
    /\ settle = [c \in Rooms |-> 0]
    /\ grace = {}
    /\ older = [c \in Rooms |-> 0]
    /\ guildPerm \in {g \in [Members -> GuildLevels] : g[Regular] = "none"}
    /\ reply = "none"
    /\ prov = NoProv
    /\ joinQ = {}
    /\ cb = [c \in Rooms |-> [p \in CbPcs |-> 0]]
    /\ rejoined = {}
    /\ reapFault = FALSE
    /\ NoSide

Next ==
    \/ \E m \in Members : JoinLobby(m)
    \/ \E m \in Members, c \in Rooms : JoinRoom(m, c)
    \/ \E m \in Members : Leave(m)
    \/ \E m \in Members, c \in Rooms : SwitchToRoom(m, c)
    \/ \E m \in Members : SwitchToLobby(m)
    \/ \E c \in Rooms : SettleFire(c)
    \/ \E c \in Rooms : GraceFire(c)
    \/ \E m \in Members : LockButton(m)
    \/ \E m \in Members : UnlockButton(m)
    \/ \E m \in Members : HideButton(m)
    \/ \E m \in Members : UnhideButton(m)
    \/ \E m \in Members : ClaimButton(m)
    \/ \E m, t \in Members : VoiceDisconnectMenu(m, t)
    \/ \E m \in Members : VcLockCommand(m)
    \/ \E m \in Members : VcUnlockCommand(m)
    \/ \E m \in Members : VcHideCommand(m)
    \/ \E m \in Members : VcUnhideCommand(m)
    \/ \E m, t \in Members : VcRejectCommand(m, t)
    \/ \E m, t \in Members : VcKickCommand(m, t)

Spec == Init /\ [][Next]_vars

----------------------------------------------------------------------------
\* The capacity operations on one provisioned room, its owner in it.

LInit ==
    /\ voice = [m \in Members |-> "r1"]
    /\ chan = [c \in {"r1"} |-> NewChannel(Regular)]
    /\ used = {"r1"}
    /\ rows = [c \in {"r1"} |-> NewRoom(Regular)]
    /\ settle = [c \in Rooms |-> 0]
    /\ grace = {}
    /\ older = [c \in Rooms |-> 0]
    /\ guildPerm \in [Members -> {"none", "manage"}]
    /\ reply = "none"
    /\ prov = [member |-> Regular, chan |-> "r1", outcome |-> "created"]
    /\ joinQ = {}
    /\ cb = [c \in Rooms |-> [p \in CbPcs |-> 0]]
    /\ rejoined = {}
    /\ reapFault = FALSE
    /\ NoSide

LNext ==
    \/ \E m \in Members : IncreaseButton(m)
    \/ \E m \in Members : DecreaseButton(m)
    \/ \E m \in Members, limit \in LimitInputs : VcLimitCommand(m, limit)

SpecLimit == LInit /\ [][LNext]_vars

----------------------------------------------------------------------------
\* The startup sweep over what an earlier process instance left behind, while
\* members come and go and the reaper's timers run.

SweepIds == {"r1", "r2"}

\* No timer survives a restart; a channel id may have a channel, a row, both
\* or neither, and members sit in the channels that exist.
SInit ==
    /\ \E withChan \in SUBSET SweepIds, withRow \in SUBSET SweepIds :
         /\ chan = [c \in withChan |-> NewChannel(Regular)]
         /\ rows = [c \in withRow |-> NewRoom(Regular)]
         /\ voice \in [Members -> withChan \cup {NoChan}]
    /\ used = SweepIds
    /\ settle = [c \in SweepIds |-> 0]
    /\ grace = {}
    /\ older = [c \in SweepIds |-> 0]
    /\ guildPerm = [m \in Members |-> "none"]
    /\ reply = "none"
    /\ prov = NoProv
    /\ joinQ = {}
    /\ cb = [c \in Rooms |-> [p \in CbPcs |-> 0]]
    /\ rejoined = {}
    /\ reapFault = FALSE
    /\ NoSide

\* A step of the sweep: r is what the stretch yields.
SweepStep(r) ==
    /\ Commit(r.st)
    /\ sweep' = r.sw
    /\ reply' = "none"
    /\ UNCHANGED <<guildPerm, prov, joinQ, cb, rejoined, reapFault,
                   dbConnected, roomDocs, creating, autoIndex, more>>

SweepStart == sweep.pc = "idle" /\ dbConnected /\ SweepStep(sweepStart(St, sweep))

SweepFetch ==
    /\ sweep.pc = "fetch"
    /\ \/ sweep.todo = {} /\ SweepStep(sweepFetch(St, sweep, NoChan))
       \/ \E c \in sweep.todo : SweepStep(sweepFetch(St, sweep, c))

SweepCheck == sweep.pc = "check" /\ SweepStep(sweepCheck(St, sweep))

SweepPerm ==
    /\ sweep.pc = "perm"
    /\ \E canManage \in BOOLEAN, del \in {"ok", "missingPermissions"} :
         /\ ~canManage => del = "ok"
         /\ SweepStep(sweepPerm(St, sweep, canManage, del))

SweepDbDelete == sweep.pc = "dbdel" /\ SweepStep(sweepDbDelete(St, sweep))

SweepRecheck == sweep.pc = "recheck" /\ SweepStep(sweepRecheck(St, sweep))

Sweeping ==
    SweepStart \/ SweepFetch \/ SweepCheck \/ SweepPerm \/ SweepDbDelete \/ SweepRecheck

SNext ==
    \/ SweepStart
    \/ SweepFetch
    \/ SweepCheck
    \/ SweepPerm
    \/ SweepDbDelete
    \/ SweepRecheck
    \/ \E m \in Members, c \in SweepIds : JoinRoom(m, c)
    \/ \E m \in Members : Leave(m)
    \/ \E c \in SweepIds : SettleFire(c)
    \/ \E c \in SweepIds : GraceFire(c)

SpecSweep == SInit /\ [][SNext]_vars

\* The sweep runs to its end, and a timeout that is due expires.
SFair ==
    /\ WF_vars(Sweeping)
    /\ \A c \in SweepIds : WF_vars(SettleFire(c)) /\ WF_vars(GraceFire(c))

SpecSweepFair == SpecSweep /\ SFair

----------------------------------------------------------------------------
\* The watcher while the connection to the database comes and goes. A read
\* issued without a connection rejects at once (bufferCommands is off) and
\* execute's catch ends the handler; a read issued with a connection is
\* answered even if the connection is reported lost in the meantime. A
\* member with a read pending makes no further transition.

Reading(m) == \E c \in Rooms \cup {Lobby} : <<m, c>> \in joinQ

DownStep ==
    /\ reply' = "none"
    /\ UNCHANGED <<guildPerm, cb, rejoined, reapFault, sweep, roomDocs, creating, autoIndex,
                   more>>

\* mongoose reports the connection lost, or back.
DbDrop == dbConnected /\ dbConnected' = FALSE /\ UNCHANGED <<voice, chan, used, rows,
              settle, grace, older, prov, joinQ>> /\ DownStep

DbRestore == ~dbConnected /\ dbConnected' = TRUE /\ UNCHANGED <<voice, chan, used, rows,
              settle, grace, older, prov, joinQ>> /\ DownStep

\* none -> c: handleVoiceJoin issues getVoiceCreatorByGuildId.
DJoin(m, c) ==
    /\ voice[m] = NoChan /\ ~Reading(m)
    /\ c = Lobby \/ c \in DOMAIN chan
    /\ voice' = [voice EXCEPT ![m] = c]
    /\ joinQ' = IF dbConnected THEN joinQ \cup {<<m, c>>} ELSE joinQ
    /\ UNCHANGED <<chan, used, rows, settle, grace, older, prov, dbConnected>>
    /\ DownStep

\* createPrivateRoom from its readyState test on.
provision(s, m, f, connected) ==
    IF ~connected
    THEN [st |-> Disconnect(s, m), outcome |-> "refused", chan |-> NoChan]
    ELSE createPrivateRoom(s, m, f)

\* The answer to getVoiceCreatorByGuildId arrives: createPrivateRoom for the
\* lobby, getRoom and the gate for another channel.
DJoinHandle(m, c) ==
    /\ <<m, c>> \in joinQ
    /\ joinQ' = joinQ \ {<<m, c>>}
    /\ IF c = Lobby
       THEN \E f \in Outcomes :
              LET r == provision(St, m, f, dbConnected)
              IN  /\ IdAvailable(St, f)
                  /\ SettleBounded(r.st)
                  /\ Commit(r.st)
                  /\ prov' = Recorded(m, r)
       ELSE /\ LET s == IF dbConnected THEN handleVoiceJoin(St, m, c) ELSE St
               IN  SettleBounded(s) /\ Commit(s)
            /\ prov' = prov
    /\ UNCHANGED dbConnected
    /\ DownStep

\* X -> none: handleVoiceLeave's getRoom and setTimeout.
DLeave(m) ==
    /\ voice[m] # NoChan /\ ~Reading(m)
    /\ LET s0 == [St EXCEPT !.voice[m] = NoChan]
           s  == IF dbConnected THEN handleVoiceLeave(s0, voice[m]) ELSE s0
       IN  SettleBounded(s) /\ Commit(s)
    /\ UNCHANGED <<prov, joinQ, dbConnected>>
    /\ DownStep

\* X -> Y: the leave branch for X, then the join branch for Y issues its read.
DSwitch(m, c) ==
    /\ voice[m] \notin {NoChan, c} /\ ~Reading(m)
    /\ c = Lobby \/ c \in DOMAIN chan
    /\ LET s0 == [St EXCEPT !.voice[m] = c]
           s  == IF dbConnected THEN handleVoiceLeave(s0, voice[m]) ELSE s0
       IN  SettleBounded(s) /\ Commit(s)
    /\ joinQ' = IF dbConnected THEN joinQ \cup {<<m, c>>} ELSE joinQ
    /\ UNCHANGED <<prov, dbConnected>>
    /\ DownStep

\* A timer callback without a connection: its registry calls reject, and the
\* rejections are caught or swallowed.
DSettleFire(c) ==
    /\ settle[c] > 0
    /\ IF dbConnected THEN SettleFire(c)
       ELSE /\ Commit([St EXCEPT !.settle[c] = @ - 1,
                                 !.older[c] = IF @ > 0 THEN @ - 1 ELSE 0])
            /\ Watcher

DGraceFire(c) ==
    /\ c \in grace
    /\ older[c] = 0
    /\ IF dbConnected THEN GraceFire(c)
       ELSE Commit([St EXCEPT !.grace = @ \ {c}]) /\ Watcher

DNext ==
    \/ DbDrop
    \/ DbRestore
    \/ \E m \in Members, c \in Rooms \cup {Lobby} : DJoin(m, c)
    \/ \E m \in Members, c \in Rooms \cup {Lobby} : DJoinHandle(m, c)
    \/ \E m \in Members : DLeave(m)
    \/ \E m \in Members, c \in Rooms \cup {Lobby} : DSwitch(m, c)
    \/ \E c \in Rooms : DSettleFire(c)
    \/ \E c \in Rooms : DGraceFire(c)

\* The process starts with or without a connection.
DInit ==
    /\ voice = [m \in Members |-> NoChan]
    /\ chan = << >>
    /\ used = {}
    /\ rows = << >>
    /\ settle = [c \in Rooms |-> 0]
    /\ grace = {}
    /\ older = [c \in Rooms |-> 0]
    /\ guildPerm = [m \in Members |-> "none"]
    /\ reply = "none"
    /\ prov = NoProv
    /\ joinQ = {}
    /\ cb = [c \in Rooms |-> [p \in CbPcs |-> 0]]
    /\ rejoined = {}
    /\ reapFault = FALSE
    /\ sweep = NoSweep
    /\ dbConnected \in BOOLEAN
    /\ roomDocs = {}
    /\ creating = << >>
    /\ autoIndex = TRUE
    /\ NoMore

SpecRegistry == DInit /\ [][DNext]_vars

----------------------------------------------------------------------------
\* createRoom call by call on the stored collection: findOne, then
\* Room.create. The unique index on channelId exists if mongoose built the
\* schema's indexes (autoIndex, off when NODE_ENV is production).

CreateCalls == {"k1", "k2", "k3"}
CreateIds == {"r1", "r2"}

DocsOf(docs, c) == {d \in docs : d.channelId = c}

\* insertOne: a unique index rejects a second document with the channelId.
insertDoc(docs, d, indexed) ==
    IF indexed /\ DocsOf(docs, d.channelId) # {}
    THEN [docs |-> docs, ok |-> FALSE]
    ELSE [docs |-> docs \cup {d}, ok |-> TRUE]

CInit ==
    /\ voice = [m \in Members |-> NoChan]
    /\ chan = << >>
    /\ used = {}
    /\ rows = << >>
    /\ settle = [c \in Rooms |-> 0]
    /\ grace = {}
    /\ older = [c \in Rooms |-> 0]
    /\ guildPerm = [m \in Members |-> "none"]
    /\ reply = "none"
    /\ prov = NoProv
    /\ joinQ = {}
    /\ cb = [c \in Rooms |-> [p \in CbPcs |-> 0]]
    /\ rejoined = {}
    /\ reapFault = FALSE
    /\ sweep = NoSweep
    /\ dbConnected = TRUE
    /\ roomDocs = {}
    /\ creating = << >>
    /\ autoIndex \in BOOLEAN
    /\ NoMore

CreateStep ==
    UNCHANGED <<voice, chan, used, rows, settle, grace, older, guildPerm, reply, prov,
                joinQ, cb, rejoined, reapFault, sweep, dbConnected, autoIndex, more>>

At(k, pc) == k \in DOMAIN creating /\ creating[k].pc = pc

\* createRoom is called: Room.findOne is issued.
CreateCall(k, c, owner) ==
    /\ k \notin DOMAIN creating
    /\ creating' = [x \in DOMAIN creating \cup {k} |->
                      IF x = k THEN [channelId |-> c, ownerId |-> owner, pc |-> "find"]
                      ELSE creating[x]]
    /\ roomDocs' = roomDocs
    /\ CreateStep

\* findOne answers: an existing room makes createRoom throw, otherwise
\* Room.create is issued.
CreateFind(k) ==
    /\ At(k, "find")
    /\ creating' = [creating EXCEPT ![k].pc =
                      IF DocsOf(roomDocs, creating[k].channelId) # {} THEN "threw" ELSE "insert"]
    /\ roomDocs' = roomDocs
    /\ CreateStep

\* Room.create answers: the document is stored, or the index rejects it and
\* createRoom rethrows.
CreateInsert(k) ==
    /\ At(k, "insert")
    /\ LET d == [id |-> k, channelId |-> creating[k].channelId,
                 ownerId |-> creating[k].ownerId]
           r == insertDoc(roomDocs, d, autoIndex)
       IN  /\ roomDocs' = r.docs
           /\ creating' = [creating EXCEPT ![k].pc = IF r.ok THEN "returned" ELSE "threw"]
    /\ CreateStep

\* deleteRoom: Room.deleteOne({ channelId }).
DeleteOne(c) ==
    /\ \E d \in DocsOf(roomDocs, c) : roomDocs' = roomDocs \ {d}
    /\ creating' = creating
    /\ CreateStep

CNext ==
    \/ \E k \in CreateCalls, c \in CreateIds, owner \in Members : CreateCall(k, c, owner)
    \/ \E k \in CreateCalls : CreateFind(k)
    \/ \E k \in CreateCalls : CreateInsert(k)
    \/ \E c \in CreateIds : DeleteOne(c)

SpecCreate == CInit /\ [][CNext]_vars

----------------------------------------------------------------------------
\* The reaper with its awaits: one provisioned room, the join branch and the
\* grace callback taken one stretch at a time.

TheRoom == CHOOSE c \in Rooms : TRUE

CbCount(c) == cb[c]["fetch"] + cb[c]["check"] + cb[c]["perm"] + cb[c]["delete"]
              + cb[c]["dbdel"]

\* The channels of rj that still hold somebody when the voice states are v.
StillHeld(rj, v) == {c \in rj : MembersIn(v, c) # {}}

RInit ==
    /\ voice = [m \in Members |-> IF m = Regular THEN TheRoom ELSE NoChan]
    /\ chan = [c \in {TheRoom} |-> NewChannel(Regular)]
    /\ used = {TheRoom}
    /\ \E l \in BOOLEAN :
         rows = [c \in {TheRoom} |-> [NewRoom(Regular) EXCEPT !.locked = l]]
    /\ settle = [c \in Rooms |-> 0]
    /\ grace = {}
    /\ older = [c \in Rooms |-> 0]
    /\ guildPerm = [m \in Members |-> "none"]
    /\ reply = "none"
    /\ prov = [member |-> Regular, chan |-> TheRoom, outcome |-> "created"]
    /\ joinQ = {}
    /\ cb = [c \in Rooms |-> [p \in CbPcs |-> 0]]
    /\ rejoined = {}
    /\ reapFault = FALSE
    /\ NoSide

\* The gateway reports none -> c: the voice state changes at once, the join
\* branch runs later.
RJoin(m, c) ==
    /\ voice[m] = NoChan
    /\ c \in DOMAIN chan
    /\ voice' = [voice EXCEPT ![m] = c]
    /\ joinQ' = joinQ \cup {<<m, c>>}
    /\ rejoined' = IF isEmpty(St, c) /\ (settle[c] > 0 \/ c \in grace) /\ CbCount(c) = 0
                   THEN rejoined \cup {c} ELSE rejoined
    /\ UNCHANGED <<chan, used, rows, settle, grace, older, guildPerm, side, reply, prov,
                   cb, reapFault>>

\* handleVoiceJoin past getVoiceCreatorByGuildId and getRoom.
RJoinHandle(m, c) ==
    /\ <<m, c>> \in joinQ
    /\ LET s == handleVoiceJoin(St, m, c)
       IN  /\ SettleBounded(s)
           /\ Commit(s)
           /\ rejoined' = StillHeld(rejoined, s.voice)
    /\ joinQ' = joinQ \ {<<m, c>>}
    /\ UNCHANGED <<guildPerm, side, reply, prov, cb, reapFault>>

RLeave(m) ==
    /\ voice[m] # NoChan
    /\ LET s == handleVoiceLeave([St EXCEPT !.voice[m] = NoChan], voice[m])
       IN  /\ SettleBounded(s)
           /\ Commit(s)
           /\ rejoined' = StillHeld(rejoined, s.voice)
    /\ UNCHANGED <<guildPerm, side, reply, prov, joinQ, cb, reapFault>>

\* The grace timeout expires: deletionTimeouts.delete, then the first await.
RGraceFire(c) ==
    /\ c \in grace
    /\ older[c] = 0
    /\ CbCount(c) < MaxCallbacks
    /\ grace' = grace \ {c}
    /\ cb' = [cb EXCEPT ![c]["fetch"] = @ + 1]
    /\ UNCHANGED <<voice, chan, used, rows, settle, older, guildPerm, side, reply, prov,
                   joinQ, rejoined, reapFault>>

\* A callback at position pc takes the stretch r.
CbMove(c, pc, r, fault) ==
    /\ Commit(r.st)
    /\ cb' = IF r.pc = "done"
             THEN [cb EXCEPT ![c][pc] = @ - 1]
             ELSE [cb EXCEPT ![c][pc] = @ - 1, ![c][r.pc] = @ + 1]
    /\ rejoined' = StillHeld(rejoined, r.st.voice)
    /\ reapFault' = (reapFault \/ fault)
    /\ UNCHANGED <<guildPerm, side, reply, prov, joinQ>>

CbFetch(c) == cb[c]["fetch"] > 0 /\ CbMove(c, "fetch", cbFetch(St, c), FALSE)

CbCheck(c) == cb[c]["check"] > 0 /\ CbMove(c, "check", cbCheck(St, c), FALSE)

CbPerm(c) ==
    /\ cb[c]["perm"] > 0
    /\ \E canManage \in BOOLEAN :
         CbMove(c, "perm", cbPerm(St, c, canManage), ~canManage)

CbDelete(c) ==
    /\ cb[c]["delete"] > 0
    /\ \E del \in DeleteResults :
         CbMove(c, "delete", cbDelete(St, c, del), del # "ok" /\ c \in DOMAIN chan)

CbDbDelete(c) == cb[c]["dbdel"] > 0 /\ CbMove(c, "dbdel", cbDbDelete(St, c), FALSE)

RNext ==
    \/ \E m \in Members, c \in Rooms : RJoin(m, c)
    \/ \E m \in Members, c \in Rooms : RJoinHandle(m, c)
    \/ \E m \in Members : RLeave(m)
    \/ \E c \in Rooms : SettleFire(c)
    \/ \E c \in Rooms : RGraceFire(c)
    \/ \E c \in Rooms : CbFetch(c)
    \/ \E c \in Rooms : CbCheck(c)
    \/ \E c \in Rooms : CbPerm(c)
    \/ \E c \in Rooms : CbDelete(c)
    \/ \E c \in Rooms : CbDbDelete(c)

SpecReap == RInit /\ [][RNext]_vars

\* Timers expire and started handlers run on: the event loop is never idle
\* with work pending. Joins and leaves are up to the members.
RFair ==
    /\ \A c \in Rooms : WF_vars(SettleFire(c)) /\ WF_vars(RGraceFire(c))
    /\ \A c \in Rooms : WF_vars(CbFetch(c)) /\ WF_vars(CbCheck(c)) /\ WF_vars(CbPerm(c))
    /\ \A c \in Rooms : WF_vars(CbDelete(c)) /\ WF_vars(CbDbDelete(c))
    /\ \A m \in Members, c \in Rooms : WF_vars(RJoinHandle(m, c))

SpecReapFair == RInit /\ [][RNext]_vars /\ RFair

----------------------------------------------------------------------------
\* Properties of provisioning, the gate and the control surface.

RoomIds == DOMAIN rows \cap DOMAIN chan

\* C1: a createPrivateRoom run whose move or registry write failed leaves
\* either the channel with its Room row and the member in it, or neither
\* the channel nor a row.
C1_ProvisionAllOrNothing ==
    prov.outcome \in {"moveFailed", "dbFailed"} =>
        \/ prov.chan \notin DOMAIN chan /\ prov.chan \notin DOMAIN rows
        \/ prov.chan \in RoomIds /\ voice[prov.member] = prov.chan

\* C5: a member joining a locked room who is neither its owner nor holds an
\* explicit connect allow ends up disconnected; the owner and a member with
\* an explicit allow stay connected.
C5_LockedRoomGate ==
    [][\A m \in Members, c \in Rooms :
          ((JoinRoom(m, c) \/ SwitchToRoom(m, c)) /\ c \in RoomIds) =>
              /\ (rows[c].locked /\ m # rows[c].ownerId /\ chan[c].memConnect[m] # "allow")
                    => voice'[m] = NoChan
              /\ (m = rows[c].ownerId \/ chan[c].memConnect[m] = "allow")
                    => voice'[m] = c]_vars

\* C6: a Claim pressed while the owner is in the channel is turned down and
\* leaves the registry as it is; the ownerId changes only to the caller, and
\* only when the owner was not in the channel.
C6_ClaimOnlyWhenOwnerAbsent ==
    [][\A m \in Members : ClaimButton(m) =>
          LET c == voice[m]
              present == rows[c].ownerId \in MembersIn(voice, c)
          IN  /\ present => (rows' = rows /\ reply' = "ownerPresent")
              /\ rows' # rows => (~present /\ reply' = "claimed"
                                   /\ rows' = updateRoom(rows, c, [ownerId |-> m]))]_vars

\* A member other than the one the room was provisioned for has claimed it.
C6_Witness ==
    /\ reply = "claimed"
    /\ \E m \in Members :
         /\ voice[m] \in RoomIds
         /\ rows[voice[m]].ownerId = m
         /\ prov.outcome = "created" /\ prov.chan = voice[m]
         /\ prov.member # m

\* Control operations other than Claim run by m from inside a room, by
\* button, menu or command.
ControlOpBy(m) ==
    \/ LockButton(m) \/ UnlockButton(m) \/ HideButton(m) \/ UnhideButton(m)
    \/ VcLockCommand(m) \/ VcUnlockCommand(m) \/ VcHideCommand(m) \/ VcUnhideCommand(m)
    \/ \E t \in Members : VoiceDisconnectMenu(m, t) \/ VcRejectCommand(m, t)
    \/ \E t \in Members : voice[t] = voice[m] /\ VcKickCommand(m, t)

\* C7: a control operation other than Claim run by somebody who is not the
\* room's owner changes neither the channel, nor who is in it, nor the
\* registry.
C7_NonOwnerChangesNothing ==
    [][\A m \in Members :
          (InRoom(m) /\ rows[voice[m]].ownerId # m /\ ControlOpBy(m)) =>
              (chan' = chan /\ rows' = rows /\ voice' = voice)]_vars

\* C8: wherever a room has its row, locked is true exactly when the
\* everyone overwrite denies connect.
C8_LockedMatchesOverwrite ==
    \A c \in RoomIds : rows[c].locked <=> (chan[c].evConnect = "deny")

\* C9: right after a Hide or Unhide that acknowledged success, by button or
\* by command, hidden is true exactly when the everyone overwrite denies
\* view.
C9_HiddenMatchesOverwrite ==
    [][\A m \in Members :
          (/\ InRoom(m)
           /\ HideButton(m) \/ UnhideButton(m) \/ VcHideCommand(m) \/ VcUnhideCommand(m)
           /\ reply' \in {"hidden", "unhidden"}) =>
              (rows'[voice[m]].hidden <=> (chan'[voice[m]].evView = "deny"))]_vars

\* What each mutating operation asks for: the acknowledgment of success, the
\* field of the Room row and its value.
Asked(m) ==
    {k \in {[ack |-> "locked", field |-> "locked", val |-> TRUE],
             [ack |-> "unlocked", field |-> "locked", val |-> FALSE],
             [ack |-> "hidden", field |-> "hidden", val |-> TRUE],
             [ack |-> "unhidden", field |-> "hidden", val |-> FALSE]} :
        CASE k.ack = "locked" -> LockButton(m) \/ VcLockCommand(m)
          [] k.ack = "unlocked" -> UnlockButton(m) \/ VcUnlockCommand(m)
          [] k.ack = "hidden" -> HideButton(m) \/ VcHideCommand(m)
          [] OTHER -> UnhideButton(m) \/ VcUnhideCommand(m)}

\* C10: a mutating operation whose registry update did not apply does not
\* acknowledge success: after Lock, Unlock, Hide or Unhide, a Room row that
\* does not hold the value asked for means the reply is a failure.
C10_NoSuccessWithoutRowUpdate ==
    [][\A m \in Members : \A k \in Asked(m) :
          (voice[m] \notin DOMAIN rows' \/ rows'[voice[m]][k.field] # k.val)
              => reply' # k.ack]_vars

\* Both calls of an operation go through.
Through == [edit |-> TRUE, db |-> TRUE]

\* Op by m, and Op by m again: both acknowledge ack, both leave the Room
\* row's field at val and the everyone overwrite ev at perm, and the second
\* leaves the state the first produced.
TwiceAsOnce(Op(_, _, _), m, ack, field, val, ev, perm) ==
    LET c == voice[m]
        once == Op(St, m, Through)
        twice == Op(once.st, m, Through)
        Holds(s) == s.rows[c][field] = val /\ s.chan[c][ev] = perm
    IN  /\ once.kind = ack /\ Holds(once.st)
        /\ twice.kind = ack /\ Holds(twice.st)
        /\ twice.st = once.st

C17_KickOnlyInInvokersRoom ==
    [][\A m, t \in Members :
         (VcKickCommand(m, t) \/ VoiceDisconnectMenu(m, t)) =>
            \/ InRoom(m) /\ voice[t] = voice[m]
            \/ voice' = voice /\ reply' \notin {"kicked", "disconnected"}]_vars

\* C18: a provisioning that stops at a precondition or at channels.create
\* (no channel id was handed out) leaves the joining member disconnected,
\* and no channel and no Room row has been created.
C18_AbortDisconnects ==
    [][\A m \in Members :
         ((JoinLobby(m) \/ SwitchToLobby(m)) /\ used' = used) =>
            voice'[m] = NoChan /\ DOMAIN chan' = DOMAIN chan /\ DOMAIN rows' = DOMAIN rows]_vars

----------------------------------------------------------------------------
\* Properties of the capacity operations

Capacity == chan["r1"].userLimit
RoomLimit == rows["r1"].limit

\* C12: an Increase by the owner at capacity 99 is rejected with "maximum
\* reached" and the capacity stays 99; a Decrease by the owner at capacity 0
\* is rejected with "minimum reached" and the limit stays unset, capacity 0
\* and Room.limit absent, whatever limit operations came before.
C12_BoundsRejected ==
    [][\A m \in Members :
         /\ (IncreaseButton(m) /\ rows["r1"].ownerId = m /\ Capacity = MaxLimit) =>
                reply' = "maxReached" /\ chan' = chan /\ rows' = rows
         /\ (DecreaseButton(m) /\ rows["r1"].ownerId = m /\ Capacity = 0) =>
                /\ reply' = "minReached" /\ chan' = chan /\ rows' = rows
                /\ RoomLimit' = {}]_vars

\* C13: after a limit operation the owner was told succeeded, Room.limit is
\* the capacity when that is 1..99 and absent when it is 0.
C13_LimitMirrorsCapacity ==
    [][\A m \in Members :
         ( /\ rows["r1"].ownerId = m
           /\ \/ IncreaseButton(m) \/ DecreaseButton(m)
              \/ \E limit \in LimitInputs : VcLimitCommand(m, limit)
           /\ reply' \in {"increased", "decreased", "limitSet"} ) =>
             RoomLimit' = IF Capacity' = 0 THEN {} ELSE {Capacity'}]_vars

----------------------------------------------------------------------------
\* Properties of the watcher without the registry

\* What a handler may not do: create or delete a channel, arm a timer.
Quiet == chan' = chan /\ settle' = settle /\ grace' = grace

\* C19: with the registry unavailable, the handling of a join, leave or
\* switch creates and deletes no channel, arms no deletion timer, and
\* disconnects or moves no member: the voice state changes by the reported
\* transition and by nothing else.
C19_UnavailableIsNoOp ==
    [][~dbConnected =>
         \A m \in Members :
            /\ DLeave(m) => Quiet /\ voice' = [voice EXCEPT ![m] = NoChan]
            /\ \A c \in Rooms \cup {Lobby} :
                 /\ (DJoin(m, c) \/ DSwitch(m, c)) =>
                        Quiet /\ voice' = [voice EXCEPT ![m] = c]
                 /\ DJoinHandle(m, c) => Quiet /\ voice' = voice]_vars

----------------------------------------------------------------------------
\* Properties of createRoom

\* C20: no step leaves more than one stored row per channelId, and a
\* createRoom step for a channelId that has a row throws and leaves the
\* stored rows as they are, at the existence check and at the insert alike.
C20_OneRowPerChannel ==
    [][/\ \A c \in CreateIds : Cardinality(DocsOf(roomDocs', c)) <= 1
       /\ \A k \in CreateCalls :
            ( /\ CreateFind(k) \/ CreateInsert(k)
              /\ DocsOf(roomDocs, creating[k].channelId) # {} ) =>
                creating'[k].pc = "threw" /\ roomDocs' = roomDocs]_vars

----------------------------------------------------------------------------
\* Properties of the startup sweep

\* A valid row: its channel exists and has members.
ValidRow(c) == c \in DOMAIN rows /\ c \in DOMAIN chan /\ MembersIn(voice, c) # {}

Untouched(c) ==
    /\ c \in DOMAIN rows' /\ rows'[c] = rows[c]
    /\ c \in DOMAIN chan' /\ chan'[c] = chan[c]
    /\ MembersIn(voice', c) = MembersIn(voice, c)

C15_EmptyDeletedPopulatedKept ==
    [][/\ (Sweeping /\ sweep.pc \in {"perm", "dbdel", "recheck"} /\ sweep'.pc = "fetch") =>
            sweep.cur \notin DOMAIN chan' /\ sweep.cur \notin DOMAIN rows'
       /\ (Sweeping /\ sweep.cur \in DOMAIN rows /\ sweep.cur \notin DOMAIN rows') =>
            (sweep.found => sweep.cur \notin DOMAIN chan)
       /\ (Sweeping /\ sweep.pc = "check" /\ sweep.found /\ ~isEmpty(St, sweep.cur)) =>
            rows' = rows /\ chan' = chan /\ voice' = voice]_vars

\* C16: a row whose channel no longer exists is eventually deleted, and a
\* channel left without a row is eventually deleted.
C16_OrphansHealed ==
    \A c \in SweepIds :
        /\ (c \in DOMAIN rows /\ c \notin DOMAIN chan) ~> (c \notin DOMAIN rows)
        /\ (c \in DOMAIN chan /\ c \notin DOMAIN rows) ~> (c \notin DOMAIN chan)

----------------------------------------------------------------------------
\* Properties of the reaper.

EmptyRoom(c) == c \in DOMAIN rows /\ c \in DOMAIN chan /\ MembersIn(voice, c) = {}

Reaped(c) == c \notin DOMAIN chan /\ c \notin DOMAIN rows

\* C2: a room that a member rejoined while its settle or grace timeout was
\* pending, and that has held a member since, loses neither its channel nor
\* its Room row.
C2_RejoinedRoomSurvives ==
    [][\A c \in rejoined :
          /\ c \in DOMAIN chan => c \in DOMAIN chan'
          /\ c \in DOMAIN rows => c \in DOMAIN rows']_vars

\* The rejoin came while the grace timeout was armed or the settle timeout
\* pending; every timeout, callback and join handler has since run and the
\* room is intact.
C2_Witness ==
    \E c \in rejoined :
        /\ c \in DOMAIN chan /\ c \in DOMAIN rows
        /\ settle[c] = 0 /\ c \notin grace /\ CbCount(c) = 0 /\ joinQ = {}

\* C4: when the grace callback issues the channel delete, nobody is in the
\* channel.
C4_DeleteIssuedOnEmptyChannel ==
    [][\A c \in Rooms :
          cb'[c]["delete"] > cb[c]["delete"] => MembersIn(voice, c) = {}]_vars

\* C3: a room that is empty and that nobody rejoins is eventually reaped,
\* channel and Room row both, unless the bot lacked ManageChannels or the
\* channel delete was rejected.
C3_EmptyLeadsToReaped ==
    \A c \in Rooms : EmptyRoom(c) ~> (Reaped(c) \/ MembersIn(voice, c) # {} \/ reapFault)

\* C21: a grace timeout of a channel with a Room row does not expire while a
\* member who joined the channel is in it: the handling of the join has
\* cleared the timeout and removed its deletionTimeouts entry.
C21_JoinCancelsGrace ==
    [][\A c \in Rooms :
         RGraceFire(c) => ~(hasRoom(rows, c) /\ MembersIn(voice, c) # {})]_vars

\* The grace timeout of c is due and c is an empty room.
GraceDue(c) == c \in grace /\ older[c] = 0 /\ EmptyRoom(c)

----------------------------------------------------------------------------
\* handleVoiceSwitch await by await while the connection to the database
\* comes and goes: the leave branch's getRoom, then the join branch's
\* getVoiceCreatorByGuildId. A read issued without a connection rejects, and
\* the rejection leaves handleVoiceSwitch and is logged by execute's catch.

SwitchStep ==
    /\ reply' = "none"
    /\ UNCHANGED <<guildPerm, joinQ, cb, rejoined, reapFault, sweep, dbConnected, roomDocs,
                   creating, autoIndex, ops, building, commandBlacklist, ran, cache, now,
                   timers>>

Switching(m) == m \in DOMAIN switching

\* The handler of m is over.
ended(sw, m) == [x \in DOMAIN sw \ {m} |-> sw[x]]

\* X -> Y is delivered: the voice state has changed, and handleVoiceLeave(X)
\* issues its getRoom.
SSwitch(m, c) ==
    /\ voice[m] \notin {NoChan, c} /\ ~Switching(m) /\ ~Reading(m)
    /\ c = Lobby \/ c \in DOMAIN chan
    /\ voice' = [voice EXCEPT ![m] = c]
    /\ switching' = [x \in DOMAIN switching \cup {m} |->
                       IF x = m
                       THEN [from |-> voice[m], to |-> c, pc |-> "leave", up |-> dbConnected]
                       ELSE switching[x]]
    /\ UNCHANGED <<chan, used, rows, settle, grace, older, prov>>
    /\ SwitchStep

\* The leave branch's getRoom settles: answered, the settle timeout is armed
\* for a channel with a row and handleVoiceJoin(Y) issues its first read;
\* rejected, the handler is over.
SLeaveRead(m) ==
    /\ Switching(m) /\ switching[m].pc = "leave"
    /\ IF switching[m].up
       THEN /\ LET s == handleVoiceLeave(St, switching[m].from)
               IN  SettleBounded(s) /\ Commit(s)
            /\ switching' = [switching EXCEPT ![m].pc = "join", ![m].up = dbConnected]
       ELSE /\ switching' = ended(switching, m)
            /\ UNCHANGED <<voice, chan, used, rows, settle, grace, older>>
    /\ prov' = prov
    /\ SwitchStep

\* The join branch's first read settles: createPrivateRoom for the lobby,
\* getRoom and the gate for another channel.
SJoinRead(m) ==
    /\ Switching(m) /\ switching[m].pc = "join"
    /\ switching' = ended(switching, m)
    /\ IF ~switching[m].up
       THEN UNCHANGED <<voice, chan, used, rows, settle, grace, older, prov>>
       ELSE IF switching[m].to = Lobby
       THEN \E f \in Outcomes :
              LET r == provision(St, m, f, dbConnected)
              IN  /\ IdAvailable(St, f)
                  /\ SettleBounded(r.st)
                  /\ Commit(r.st)
                  /\ prov' = Recorded(m, r)
       ELSE /\ LET s == IF dbConnected THEN handleVoiceJoin(St, m, switching[m].to) ELSE St
               IN  SettleBounded(s) /\ Commit(s)
            /\ prov' = prov
    /\ SwitchStep

WNext ==
    \/ DbDrop
    \/ DbRestore
    \/ \E m \in Members, c \in Rooms \cup {Lobby} : ~Switching(m) /\ DJoin(m, c)
    \/ \E m \in Members, c \in Rooms \cup {Lobby} : DJoinHandle(m, c)
    \/ \E m \in Members : ~Switching(m) /\ DLeave(m)
    \/ \E m \in Members, c \in Rooms \cup {Lobby} : SSwitch(m, c)
    \/ \E m \in Members : SLeaveRead(m)
    \/ \E m \in Members : SJoinRead(m)
    \/ \E c \in Rooms : DSettleFire(c)
    \/ \E c \in Rooms : DGraceFire(c)

SpecSwitch == DInit /\ [][WNext]_vars

\* C23: every switch X -> Y gets the join branch for Y, and only after the
\* leave branch for X was started: a handler that is in its leave branch is
\* still there, or in its join branch, after any step.
C23_JoinBranchAlwaysRun ==
    [][\A m \in Members :
         (Switching(m) /\ switching[m].pc = "leave") =>
             (m \in DOMAIN switching' /\ switching'[m].pc \in {"leave", "join"})]_vars

----------------------------------------------------------------------------
\* Button handlers await by await. ops holds, per button and member, the
\* handler in flight (at "read", "edit" or "update": the call it awaits) or
\* how the last one ended ("done", "refused", "failed").

Ended == {"done", "refused", "failed"}

AtOp(kind, m, pc) == <<kind, m>> \in DOMAIN ops /\ ops[<<kind, m>>].pc = pc

Idle(kind, m) == <<kind, m>> \in DOMAIN ops => ops[<<kind, m>>].pc \in Ended

setOp(kind, m, pc, seen) ==
    [x \in DOMAIN ops \cup {<<kind, m>>} |->
        IF x = <<kind, m>> THEN [pc |-> pc, seen |-> seen] ELSE ops[x]]

dropOp(kind, m) == [x \in DOMAIN ops \ {<<kind, m>>} |-> ops[x]]

OpStep ==
    /\ reply' = "none"
    /\ UNCHANGED <<used, settle, grace, older, guildPerm, prov, joinQ, cb, rejoined,
                   reapFault, sweep, dbConnected, roomDocs, creating, autoIndex, switching,
                   building, commandBlacklist, ran, cache, now, timers>>

\* The member presses the button: the handler resolves the member's voice
\* channel and issues getRoom.
Press(kind, m) ==
    /\ voice[m] \in DOMAIN chan
    /\ Idle(kind, m)
    /\ ops' = setOp(kind, m, "read", NoMember)
    /\ UNCHANGED <<voice, chan, rows>>
    /\ OpStep

\* What Lock and Unlock write.
lockEdit(kind) == IF kind = "lock" THEN "deny" ELSE "allow"
lockData(kind) == [locked |-> (kind = "lock")]

\* getRoom is answered: no row, return; not the owner, the refusal; the
\* owner, permissionOverwrites.edit is issued.
LockRead(kind, m) ==
    /\ AtOp(kind, m, "read")
    /\ ops' = IF ~hasRoom(rows, voice[m]) THEN dropOp(kind, m)
              ELSE IF rows[voice[m]].ownerId # m THEN setOp(kind, m, "refused", NoMember)
              ELSE setOp(kind, m, "edit", NoMember)
    /\ UNCHANGED <<voice, chan, rows>>
    /\ OpStep

\* permissionOverwrites.edit settles: applied, updateRoom is issued;
\* rejected, the handler is over.
LockEdit(kind, m) ==
    /\ AtOp(kind, m, "edit")
    /\ \E ok \in BOOLEAN :
         IF ok /\ voice[m] \in DOMAIN chan
         THEN /\ chan' = editEveryone(St, voice[m], "evConnect", lockEdit(kind)).chan
              /\ ops' = setOp(kind, m, "update", NoMember)
         ELSE /\ chan' = chan
              /\ ops' = setOp(kind, m, "failed", NoMember)
    /\ UNCHANGED <<voice, rows>>
    /\ OpStep

\* updateRoom settles: applied, the handler replies; rejected, it is over.
LockUpdate(kind, m) ==
    /\ AtOp(kind, m, "update")
    /\ \E ok \in BOOLEAN :
         IF ok
         THEN /\ rows' = updateRoom(rows, voice[m], lockData(kind))
              /\ ops' = setOp(kind, m, "done", NoMember)
         ELSE /\ rows' = rows
              /\ ops' = setOp(kind, m, "failed", NoMember)
    /\ UNCHANGED <<voice, chan>>
    /\ OpStep

LockKinds == {"lock", "unlock"}

\* One provisioned room with both members in it.
KInit ==
    /\ voice = [m \in Members |-> TheRoom]
    /\ chan = [c \in {TheRoom} |-> NewChannel(Regular)]
    /\ used = {TheRoom}
    /\ rows = [c \in {TheRoom} |-> NewRoom(Regular)]
    /\ settle = [c \in Rooms |-> 0]
    /\ grace = {}
    /\ older = [c \in Rooms |-> 0]
    /\ guildPerm = [m \in Members |-> "none"]
    /\ reply = "none"
    /\ prov = [member |-> Regular, chan |-> TheRoom, outcome |-> "created"]
    /\ joinQ = {}
    /\ cb = [c \in Rooms |-> [p \in CbPcs |-> 0]]
    /\ rejoined = {}
    /\ reapFault = FALSE
    /\ NoSide

KNext ==
    \/ \E kind \in LockKinds, m \in Members : Press(kind, m)
    \/ \E kind \in LockKinds, m \in Members : LockRead(kind, m)
    \/ \E kind \in LockKinds, m \in Members : LockEdit(kind, m)
    \/ \E kind \in LockKinds, m \in Members : LockUpdate(kind, m)

SpecLock == KInit /\ [][KNext]_vars

\* C24: once a Lock and an Unlock of one room have both run to their reply,
\* Room.locked agrees with the everyone overwrite for Connect.
C24_LockUnlockAgree ==
    \A m, n \in Members :
        (AtOp("lock", m, "done") /\ AtOp("unlock", n, "done")) =>
            \A c \in DOMAIN rows \cap DOMAIN chan :
                rows[c].locked = (chan[c].evConnect = "deny")

----------------------------------------------------------------------------
\* The Claim button await by await: getRoom, the owner-presence test on the
\* Room read, updateRoom.

\* The member who provisioned the room and has since left voice.
Founder == "m0"

\* getRoom reads the registry: the handler holds the Room it was given.
ClaimRead(m) ==
    /\ AtOp("claim", m, "read")
    /\ ops' = IF ~hasRoom(rows, voice[m]) THEN dropOp("claim", m)
              ELSE setOp("claim", m, "check", rows[voice[m]].ownerId)
    /\ UNCHANGED <<voice, chan, rows>>
    /\ OpStep

\* The answer arrives: the owner of the Room read is looked up among the
\* channel's members; if absent, updateRoom is issued.
ClaimCheck(m) ==
    /\ AtOp("claim", m, "check")
    /\ ops' = IF ops[<<"claim", m>>].seen \in MembersIn(voice, voice[m])
              THEN setOp("claim", m, "refused", ops[<<"claim", m>>].seen)
              ELSE setOp("claim", m, "update", ops[<<"claim", m>>].seen)
    /\ UNCHANGED <<voice, chan, rows>>
    /\ OpStep

\* updateRoom settles.
ClaimUpdate(m) ==
    /\ AtOp("claim", m, "update")
    /\ \E ok \in BOOLEAN :
         IF ok
         THEN /\ rows' = updateRoom(rows, voice[m], [ownerId |-> m])
              /\ ops' = setOp("claim", m, "done", ops[<<"claim", m>>].seen)
         ELSE /\ rows' = rows
              /\ ops' = setOp("claim", m, "failed", ops[<<"claim", m>>].seen)
    /\ UNCHANGED <<voice, chan>>
    /\ OpStep

\* One room with both members in it, owned by one of them or by the founder.
QInit ==
    /\ voice = [m \in Members |-> TheRoom]
    /\ \E o \in Members \cup {Founder} :
         /\ chan = [c \in {TheRoom} |-> NewChannel(o)]
         /\ rows = [c \in {TheRoom} |-> NewRoom(o)]
    /\ used = {TheRoom}
    /\ settle = [c \in Rooms |-> 0]
    /\ grace = {}
    /\ older = [c \in Rooms |-> 0]
    /\ guildPerm = [m \in Members |-> "none"]
    /\ reply = "none"
    /\ prov = [member |-> Founder, chan |-> TheRoom, outcome |-> "created"]
    /\ joinQ = {}
    /\ cb = [c \in Rooms |-> [p \in CbPcs |-> 0]]
    /\ rejoined = {}
    /\ reapFault = FALSE
    /\ NoSide

QNext ==
    \/ \E m \in Members : Press("claim", m)
    \/ \E m \in Members : ClaimRead(m)
    \/ \E m \in Members : ClaimCheck(m)
    \/ \E m \in Members : ClaimUpdate(m)

SpecClaim == QInit /\ [][QNext]_vars

\* C25: whenever a Claim's updateRoom writes ownerId, the owner the registry
\* records at that moment is not in the channel.
C25_ClaimWriteFindsOwnerAbsent ==
    [][\A m \in Members :
         (AtOp("claim", m, "update") /\ ops'[<<"claim", m>>].pc = "done") =>
             rows[voice[m]].ownerId \notin MembersIn(voice, voice[m])]_vars


\* C26: reaper and sweep take a Room row out of the registry only when its
\* channel is gone or empty: a row whose channel exists and holds a member
\* is still there after any step.
C26_PopulatedRoomKeepsRow ==
    [][\A c \in SweepIds :
         (c \in DOMAIN rows /\ c \in DOMAIN chan /\ MembersIn(voice, c) # {}) =>
             c \in DOMAIN rows']_vars

----------------------------------------------------------------------------
\* createPrivateRoom await by await from channels.create on: the channel is
\* created, voice.setChannel settles, createRoom settles. building holds the
\* runs in between, and the watcher handles other events meanwhile.

ProvStep ==
    /\ reply' = "none"
    /\ UNCHANGED <<guildPerm, joinQ, cb, rejoined, reapFault, sweep, dbConnected, roomDocs,
                   creating, autoIndex, switching, ops, commandBlacklist, ran, cache, now,
                   timers>>

Building(m) == m \in DOMAIN building

built(m) == [x \in DOMAIN building \ {m} |-> building[x]]

\* none -> lobby: a run stopped by its preconditions or a rejected create
\* ends here; otherwise the channel exists and setChannel is issued.
PJoinLobby(m) ==
    /\ voice[m] = NoChan /\ ~Building(m)
    /\ \/ \E f \in Outcomes :
            /\ f.pre # "met" \/ ~f.create
            /\ LET r == createPrivateRoom([St EXCEPT !.voice[m] = Lobby], m, f)
               IN  SettleBounded(r.st) /\ Commit(r.st) /\ prov' = Recorded(m, r)
            /\ building' = building
       \/ /\ Rooms \ used # {}
          /\ LET c == FreshId(St)
             IN  /\ chan' = [x \in DOMAIN chan \cup {c} |->
                               IF x = c THEN NewChannel(m) ELSE chan[x]]
                 /\ used' = used \cup {c}
                 /\ building' = [x \in DOMAIN building \cup {m} |->
                                   IF x = m THEN [chan |-> c, pc |-> "move"]
                                   ELSE building[x]]
          /\ voice' = [voice EXCEPT ![m] = Lobby]
          /\ UNCHANGED <<rows, settle, grace, older, prov>>
    /\ ProvStep

\* voice.setChannel settles: the member is in the new channel and createRoom
\* is issued; or the move is rejected (the member has left voice, say), the
\* channel is deleted again and the member disconnected.
PMove(m) ==
    /\ Building(m) /\ building[m].pc = "move"
    /\ \E ok \in BOOLEAN, del \in BOOLEAN :
         LET c == building[m].chan
         IN  IF ok /\ voice[m] # NoChan
             THEN /\ del
                  /\ Commit([St EXCEPT !.voice[m] = c])
                  /\ building' = [building EXCEPT ![m].pc = "write"]
                  /\ prov' = prov
             ELSE /\ ~ok
                  /\ LET s == Disconnect(CompensateDelete(St, c, del), m)
                     IN  SettleBounded(s) /\ Commit(s)
                  /\ building' = built(m)
                  /\ prov' = [member |-> m, chan |-> c, outcome |-> "moveFailed"]
    /\ ProvStep

\* createRoom settles: the row is written, or the rejection is compensated.
PWrite(m) ==
    /\ Building(m) /\ building[m].pc = "write"
    /\ \E ok \in BOOLEAN, del \in BOOLEAN :
         LET c == building[m].chan
         IN  IF ok
             THEN /\ del
                  /\ Commit([St EXCEPT !.rows = createRoom(rows, c, m)])
                  /\ prov' = [member |-> m, chan |-> c, outcome |-> "created"]
             ELSE /\ LET s == Disconnect(CompensateDelete(St, c, del), m)
                     IN  SettleBounded(s) /\ Commit(s)
                  /\ prov' = [member |-> m, chan |-> c, outcome |-> "dbFailed"]
    /\ building' = built(m)
    /\ ProvStep

PNext ==
    \/ \E m \in Members : PJoinLobby(m)
    \/ \E m \in Members : PMove(m)
    \/ \E m \in Members : PWrite(m)
    \/ \E m \in Members, c \in Rooms : ~Building(m) /\ JoinRoom(m, c)
    \/ \E m \in Members : Leave(m)
    \/ \E c \in Rooms : SettleFire(c)
    \/ \E c \in Rooms : GraceFire(c)

SpecProvision == Init /\ [][PNext]_vars

\* C27: a Room row is never written for a channel that is empty with no
\* deletion pending: when the row appears the channel holds a member, or a
\* settle or grace timeout for it is pending.
C27_RowWrittenIsReapable ==
    [][\A c \in Rooms :
         (c \notin DOMAIN rows /\ c \in DOMAIN rows') =>
             (MembersIn(voice', c) # {} \/ settle'[c] > 0 \/ c \in grace')]_vars

----------------------------------------------------------------------------
\* Command dispatch and the command blacklist (cmdblacklist add / remove,
\* the checks of interactionCreate and messageCreate).

\* Some of the registered commands, each with its aliases; all of them
\* accept prefix, mention and no-prefix invocation.
Aliases == [vclock |-> {"vlock"}, vcunlock |-> {"vunlock"}, ping |-> {"p", "latency"}]

CommandNames == DOMAIN Aliases

\* What a message may start with: a name, an alias, or neither.
Words == CommandNames \cup UNION {Aliases[n] : n \in CommandNames} \cup {"nope"}

\* commands.get(word), then the search through the aliases.
findCommand(word) ==
    IF word \in CommandNames THEN word
    ELSE IF \E n \in CommandNames : word \in Aliases[n]
    THEN CHOOSE n \in CommandNames : word \in Aliases[n]
    ELSE "none"

Dispatched(cmd, outcome) == [cmd |-> cmd, outcome |-> outcome]

\* The checks after the blacklist check (guild, owner, permissions,
\* cooldown) pass or turn the invoker down.
afterChecks(cmd, pass) == Dispatched(cmd, IF pass THEN "executed" ELSE "refused")

\* interactionCreate: the slash command's own name is looked up and tested.
slashCommand(bl, name, pass) ==
    IF findCommand(name) # name THEN Dispatched("none", "ignored")
    ELSE IF name \in bl THEN Dispatched(name, "disabled")
    ELSE afterChecks(name, pass)

\* messageCreate, prefix or mention: commandName is the word typed, the
\* command is found by name or alias, and commandName is tested.
messageCommand(bl, word, pass) ==
    IF findCommand(word) = "none" THEN Dispatched("none", "ignored")
    ELSE IF word \in bl THEN Dispatched(findCommand(word), "disabled")
    ELSE afterChecks(findCommand(word), pass)

\* messageCreate, no prefix: commandName is set to the found command's name.
noPrefixMessage(bl, word, pass) ==
    IF findCommand(word) = "none" THEN Dispatched("none", "ignored")
    ELSE IF findCommand(word) \in bl THEN Dispatched(findCommand(word), "disabled")
    ELSE afterChecks(findCommand(word), pass)

\* cmdblacklist add: a word that names no command is turned down; otherwise
\* the normalized word itself is stored.
addCommand(bl, word) ==
    IF findCommand(word) = "none" THEN bl
    ELSE bl \cup {word}

\* cmdblacklist remove
removeCommand(bl, word) == bl \ {word}

ListStep ==
    /\ reply' = "none"
    /\ UNCHANGED <<voice, chan, used, rows, settle, grace, older, guildPerm, prov, joinQ, cb,
                   rejoined, reapFault, sweep, dbConnected, roomDocs, creating, autoIndex,
                   switching, ops, building, cache, now, timers>>

AddCommand(word) ==
    /\ commandBlacklist' = addCommand(commandBlacklist, word)
    /\ ran' = NoRun
    /\ ListStep

RemoveCommand(word) ==
    /\ word \in commandBlacklist
    /\ commandBlacklist' = removeCommand(commandBlacklist, word)
    /\ ran' = NoRun
    /\ ListStep

Dispatch(r) == ran' = r /\ commandBlacklist' = commandBlacklist /\ ListStep

SlashCommand(name) ==
    \E pass \in BOOLEAN : Dispatch(slashCommand(commandBlacklist, name, pass))

MessageCommand(word) ==
    \E pass \in BOOLEAN : Dispatch(messageCommand(commandBlacklist, word, pass))

NoPrefixMessage(word) ==
    \E pass \in BOOLEAN : Dispatch(noPrefixMessage(commandBlacklist, word, pass))

BNext ==
    \/ \E word \in Words : AddCommand(word)
    \/ \E word \in Words : RemoveCommand(word)
    \/ \E name \in CommandNames : SlashCommand(name)
    \/ \E word \in Words : MessageCommand(word)
    \/ \E word \in Words : NoPrefixMessage(word)

SpecBlacklist == Init /\ [][BNext]_vars

\* C28: a command whose name is on the blacklist is not executed, whichever
\* way it was invoked: the dispatch just made did not execute it.
C28_BlacklistedNeverExecuted ==
    ran.outcome = "executed" => ran.cmd \notin commandBlacklist

----------------------------------------------------------------------------
\* The in-memory fallback cache (MemoryCache). Time is counted in units of
\* one second of TTL; the stored values play no part.

\* MemoryCache.MAX_SIZE, scaled down from 10000.
MAX_SIZE == 2
\* The clock stops here.
MaxNow == 3

CacheKeys == {"k1", "k2", "k3", "k4"}
TTLs == {1, 2}

size(ch) == Cardinality(DOMAIN ch)

without(ch, ks) == [k \in DOMAIN ch \ ks |-> ch[k]]

\* The toRemove entries that come first when sorted by expiry.
oldest(ch, toRemove) ==
    CHOOSE ks \in SUBSET DOMAIN ch :
        /\ Cardinality(ks) = toRemove
        /\ \A k \in ks, j \in DOMAIN ch \ ks : ch[k] <= ch[j]

\* cleanupExpired: entries with expires <= now go; if the map is still over
\* MAX_SIZE, the entries expiring first go until it is not.
cleanupExpired(ch, t) ==
    LET live == without(ch, {k \in DOMAIN ch : ch[k] <= t})
    IN  IF size(live) > MAX_SIZE
        THEN without(live, oldest(live, size(live) - MAX_SIZE))
        ELSE live

\* set: a cleanup first if the map is at the limit and the key is new.
set(ch, t, key, ttl) ==
    LET ch1 == IF size(ch) >= MAX_SIZE /\ key \notin DOMAIN ch
               THEN cleanupExpired(ch, t) ELSE ch
    IN  [k \in DOMAIN ch1 \cup {key} |-> IF k = key THEN t + ttl ELSE ch1[k]]

\* get: an entry past its expiry is deleted on the way.
get(ch, t, key) ==
    IF key \in DOMAIN ch /\ t > ch[key] THEN without(ch, {key}) ELSE ch

delete(ch, key) == without(ch, {key})

CacheStep ==
    /\ reply' = "none"
    /\ UNCHANGED <<voice, chan, used, rows, settle, grace, older, guildPerm, prov, joinQ, cb,
                   rejoined, reapFault, sweep, dbConnected, roomDocs, creating, autoIndex,
                   switching, ops, building, commandBlacklist, ran, timers>>

Set(key, ttl) == cache' = set(cache, now, key, ttl) /\ now' = now /\ CacheStep
Get(key) == cache' = get(cache, now, key) /\ now' = now /\ CacheStep
Delete(key) == cache' = delete(cache, key) /\ now' = now /\ CacheStep
Clear == cache' = << >> /\ now' = now /\ CacheStep
\* The cleanup interval fires.
Cleanup == cache' = cleanupExpired(cache, now) /\ now' = now /\ CacheStep
Tick == now < MaxNow /\ now' = now + 1 /\ cache' = cache /\ CacheStep

MNext ==
    \/ \E key \in CacheKeys, ttl \in TTLs : Set(key, ttl)
    \/ \E key \in CacheKeys : Get(key)
    \/ \E key \in CacheKeys : Delete(key)
    \/ Clear
    \/ Cleanup
    \/ Tick

SpecCache == Init /\ [][MNext]_vars

\* C29: the fallback cache never holds more than MAX_SIZE entries.
C29_CacheWithinMaxSize == size(cache) <= MAX_SIZE

----------------------------------------------------------------------------
\* The grace timeouts as the timer queue holds them, next to the
\* deletionTimeouts map (grace), with the callbacks taken await by await and
\* the connection to the database coming and going.

\* Grace timeouts of one channel the model lets be pending at once.
MaxTimers == 2

\* Whether deletionTimeouts holds a timeout for c: 1 or 0.
entry(g, c) == IF c \in g THEN 1 ELSE 0

\* A registry write made without a connection rejects, and the rejection is
\* caught where it is made: the registry stays as it is.
offline(r) == IF dbConnected THEN r ELSE [r EXCEPT !.st.rows = rows]

TimerStep ==
    /\ reply' = "none"
    /\ UNCHANGED <<guildPerm, prov, rejoined, reapFault, sweep, dbConnected, roomDocs,
                   creating, autoIndex, switching, ops, building, commandBlacklist, ran,
                   cache, now>>

\* handleVoiceJoin past its reads: cancelRoomDeletion clears the timeout the
\* map holds, if it holds one.
TJoinHandle(m, c) ==
    /\ <<m, c>> \in joinQ
    /\ joinQ' = joinQ \ {<<m, c>>}
    /\ LET s == IF dbConnected THEN handleVoiceJoin(St, m, c) ELSE St
       IN  /\ SettleBounded(s)
           /\ Commit(s)
           /\ timers' = [timers EXCEPT ![c] = @ - (entry(grace, c) - entry(s.grace, c))]
    /\ cb' = cb
    /\ TimerStep

\* The settle callback: for an empty room cancelRoomDeletion, setTimeout and
\* deletionTimeouts.set, all in one stretch.
TSettleFire(c) ==
    /\ settle[c] > 0
    /\ LET s0 == [St EXCEPT !.settle[c] = @ - 1,
                            !.older[c] = IF @ > 0 THEN @ - 1 ELSE 0]
           s  == IF dbConnected THEN settleCallback(s0, c) ELSE s0
           armed == dbConnected /\ c \in DOMAIN chan /\ hasRoom(rows, c) /\ isEmpty(St, c)
       IN  /\ Commit(s)
           /\ timers' = IF armed
                        THEN [timers EXCEPT ![c] = @ - entry(grace, c) + 1]
                        ELSE timers
           /\ timers'[c] <= MaxTimers
    /\ UNCHANGED <<joinQ, cb>>
    /\ TimerStep

\* A grace timeout of c expires: the one the map holds, once the settle
\* timeouts armed before it are through, or one the map no longer holds.
\* Its callback deletes the map's entry for c first.
TGraceFire(c) ==
    /\ \/ c \in grace /\ older[c] = 0
       \/ timers[c] > entry(grace, c)
    /\ CbCount(c) < MaxCallbacks
    /\ timers' = [timers EXCEPT ![c] = @ - 1]
    /\ Commit(cancelRoomDeletion(St, c))
    /\ cb' = [cb EXCEPT ![c]["fetch"] = @ + 1]
    /\ joinQ' = joinQ
    /\ TimerStep

TCbFetch(c) == cb[c]["fetch"] > 0 /\ CbMove(c, "fetch", offline(cbFetch(St, c)), FALSE)

\* getRoom settles: answered, the final check; rejected, the callback's
\* catch, which deletes the map's entry for c.
TCbCheck(c) ==
    /\ cb[c]["check"] > 0
    /\ IF dbConnected
       THEN CbMove(c, "check", cbCheck(St, c), FALSE)
       ELSE /\ Commit(cancelRoomDeletion(St, c))
            /\ cb' = [cb EXCEPT ![c]["check"] = @ - 1]
            /\ UNCHANGED <<joinQ, timers>>
            /\ TimerStep

TCbPerm(c) ==
    /\ cb[c]["perm"] > 0
    /\ \E canManage \in BOOLEAN :
         CbMove(c, "perm", offline(cbPerm(St, c, canManage)), ~canManage)

TCbDbDelete(c) == cb[c]["dbdel"] > 0 /\ CbMove(c, "dbdel", offline(cbDbDelete(St, c)), FALSE)

TNext ==
    \/ DbDrop
    \/ DbRestore
    \/ \E m \in Members, c \in Rooms : DJoin(m, c)
    \/ \E m \in Members, c \in Rooms : TJoinHandle(m, c)
    \/ \E m \in Members : DLeave(m)
    \/ \E c \in Rooms : TSettleFire(c)
    \/ \E c \in Rooms : TGraceFire(c)
    \/ \E c \in Rooms : TCbFetch(c)
    \/ \E c \in Rooms : TCbCheck(c)
    \/ \E c \in Rooms : TCbPerm(c)
    \/ \E c \in Rooms : CbDelete(c)
    \/ \E c \in Rooms : TCbDbDelete(c)

SpecTimers == RInit /\ [][TNext]_vars

\* C30: deletionTimeouts has an entry for a channel exactly when one grace
\* timeout for it is pending, and no channel has more than one pending.
C30_EntryIffOnePendingTimer ==
    \A c \in Rooms : timers[c] = entry(grace, c)

============================================================================
